---------------------------- MODULE Spec2Model ----------------------------
(***************************************************************************)
(* A state-machine model of script.js (Aurum Atelier AR try-on widget):   *)
(* the swipe-gesture recognizer (hands.onResults), the catalog navigator   *)
(* (navigateJewelry, selectJewelryType and its thumbnail buttons), the     *)
(* auto-capture sequencer (toggleTryAll, startAutoTry, stopAutoTry,        *)
(* runAutoStep and its settle timer) and the snapshot gallery.             *)
(*                                                                         *)
(* src/script.js holds the script twice; the model follows the second,     *)
(* later copy (lines 353-713), which is the one that defines takeSnapshot  *)
(* and the index-based lightbox.                                           *)
(*                                                                         *)
(* Units: time is in milliseconds (Date.now()), horizontal positions are   *)
(* in hundredths of the normalized frame width (x * 100).                  *)
(***************************************************************************)
EXTENDS Integers, Sequences, FiniteSets, TLC

(***************************************************************************)
(* Program constants                                                       *)
(***************************************************************************)
IMAGE_COUNTS ==
    [gold_earrings |-> 5, gold_necklaces |-> 5,
     diamond_earrings |-> 5, diamond_necklaces |-> 6]

Types == DOMAIN IMAGE_COUNTS

GESTURE_COOLDOWN == 800

SWIPE_THRESHOLD == 4

HISTORY_GUARD == 100

SETTLE_DELAY == 1500

(***************************************************************************)
(* Bounds of the model                                                     *)
(***************************************************************************)
\* Value of Date.now() when the page loads.  lastGestureTime starts at 0
\* and Date.now() is far larger than the cooldown, so the first frame is
\* never inside a cooldown.
Epoch == 1000

\* The clock stops advancing this many milliseconds after the page load;
\* one horizon per specification (see the specifications at the end).
MaxElapsedGesture == 1600

MaxElapsedNav == 4000

MaxElapsedRun == 9000

\* Termination of a run: the user starts runs only during the first
\* MaxStartLive milliseconds after the page load, and the clock may run
\* for the six settle delays of the longest catalog.
MaxStartLive == 0

MaxElapsedLive == 9000

\* Both slots: the clock stops after one settle delay.
MaxElapsedSlots == 1500

\* Handles handed out by setTimeout are drawn from 1..MaxTimers; a handle
\* is reused once it is neither pending nor stored in autoTryTimeout.
MaxTimers == 2

\* takeSnapshot is offered at most this many times between two clears of
\* the snapshot collection.
MaxManual == 1

(***************************************************************************)
(* Values                                                                  *)
(***************************************************************************)
\* An Image of a catalog is <<category, 1-based file index>>; NULL is the
\* JavaScript null held by an empty slot.
NULL == <<"", 0>>

\* previousHandX = null
NULL_X == -1

\* autoTryTimeout = null
NO_TIMER == 0

\* Mutant: every category is taken for an earrings category.
IsEarrings_Always(type) == TRUE

\* type.includes('earrings')
IsEarrings(type) == type \in {"gold_earrings", "diamond_earrings"}

\* The array preloadCategory builds for a category.
Catalog(type) == [i \in 1..IMAGE_COUNTS[type] |-> <<type, i>>]

\* Array.prototype.indexOf: 0-based position of the first match, or -1.
IndexOf(list, img) ==
    IF \E k \in 1..Len(list) : list[k] = img
    THEN (CHOOSE k \in 1..Len(list) :
              /\ list[k] = img
              /\ \A j \in 1..(k - 1) : list[j] # img) - 1
    ELSE -1

\* JavaScript's % : the result takes the sign of the dividend.
JsMod(a, b) == IF a >= 0 THEN a % b ELSE -((-a) % b)

\* list[i] for a 0-based i: undefined (modelled as NULL) outside the array.
At(list, i) == IF i >= 0 /\ i < Len(list) THEN list[i + 1] ELSE NULL

Abs(n) == IF n < 0 THEN -n ELSE n

(***************************************************************************)
(* State                                                                   *)
(***************************************************************************)
VARIABLES
    \* ---- variables of script.js ----
    earringImg,        \* selected earring image, or NULL
    necklaceImg,       \* selected necklace image, or NULL
    currentType,       \* selected category, or ""
    isProcessingHand,  \* a hands.send() is in flight
    isProcessingFace,  \* a faceMesh.send() is in flight
    lastGestureTime,   \* Date.now() of the last swipe, 0 at load
    previousHandX,     \* reference position, or NULL_X
    autoTryRunning,
    autoSnapshots,     \* sequence of captured frames
    autoTryIndex,
    autoTryTimeout,    \* last handle returned by setTimeout, or NO_TIMER
    preloadedAssets,   \* function: populated category -> its array
    \* ---- the page and the browser ----
    now,               \* Date.now()
    timers,            \* pending runAutoStep timeouts: [id, due]
    optionsType,       \* category the thumbnail buttons were built for
    galleryShown,      \* gallery-modal is displayed
    galleryGrid,       \* indices stored in the gallery grid's thumbnails
    inFlight,          \* analyses sent and not yet answered: [face, hand]
    \* ---- history variables (not program state) ----
    lastOp,            \* the handler that ran last and what it did
    swipeLog,          \* times of the last two swipe events
    track,             \* the recognizer's baseline as the tracker sees it
    seen,              \* the hand frame delivered last: position, swipe
    trail,             \* navigateJewelry calls since the last other write
    run                \* bookkeeping of the current / last capture run

codeVars == <<earringImg, necklaceImg, currentType, isProcessingHand,
              isProcessingFace, lastGestureTime, previousHandX,
              autoTryRunning, autoSnapshots, autoTryIndex, autoTryTimeout,
              preloadedAssets>>
pageVars == <<now, timers, optionsType, galleryShown, galleryGrid>>
histVars == <<lastOp, swipeLog, track, seen, trail, run>>
vars == <<codeVars, pageVars, inFlight, histVars>>

selectionVars == <<earringImg, necklaceImg, currentType, preloadedAssets,
                   optionsType>>
gestureVars == <<lastGestureTime, previousHandX>>
cameraVars == <<isProcessingHand, isProcessingFace>>
sequencerVars == <<autoTryRunning, autoSnapshots, autoTryIndex,
                   autoTryTimeout, timers>>
galleryVars == <<galleryShown, galleryGrid>>

(***************************************************************************)
(* History records                                                         *)
(***************************************************************************)
\* x: position of the hand in the frame hands.onResults handled last
\* (NULL_X: it held no hand, or no frame yet); fired: the swipe it fired.
NoFrame == [x |-> NULL_X, fired |-> 0]

\* name: the handler; fired: direction passed to navigateJewelry by a hand
\* frame (0 = no swipe); shown: the handler called showGallery; alert: it
\* raised the "select a sub-category" alert; x: the position in a hand frame
\* (NULL_X: the frame held no hand, or the handler is not hands.onResults);
\* first: a hand frame that follows a frame without a hand, a frame that
\* fired a swipe, or no frame at all; sent: the analysis a camera frame was
\* sent to ("face", "hand", or "none": the frame was dropped).
Op(name) ==
    [name |-> name, fired |-> 0, shown |-> FALSE, alert |-> FALSE,
     x |-> NULL_X, first |-> FALSE, sent |-> ""]

NoTrail == [n |-> 0, dir |-> 0, start |-> -2, prevDir |-> 0,
            prevFrom |-> -2, from |-> -2]

NoRun == [any |-> FALSE, steps |-> 0, manual |-> 0, disturbed |-> FALSE]

\* The slot the current category writes, and the 0-based index of its item
\* in the current category's catalog (-1: "none" or a foreign item).
CurrentItem == IF IsEarrings(currentType) THEN earringImg ELSE necklaceImg

CurrentIndex ==
    IF currentType # "" /\ currentType \in DOMAIN preloadedAssets
    THEN IndexOf(preloadedAssets[currentType], CurrentItem)
    ELSE -1

CurrentLength ==
    IF currentType # "" /\ currentType \in DOMAIN preloadedAssets
    THEN Len(preloadedAssets[currentType])
    ELSE 0

(***************************************************************************)
(* Init: the state after the script has been evaluated (lines 370-386)     *)
(***************************************************************************)
Init ==
    /\ earringImg = NULL
    /\ necklaceImg = NULL
    /\ currentType = ""
    /\ isProcessingHand = FALSE
    /\ isProcessingFace = FALSE
    /\ lastGestureTime = 0
    /\ previousHandX = NULL_X
    /\ autoTryRunning = FALSE
    /\ autoSnapshots = <<>>
    /\ autoTryIndex = 0
    /\ autoTryTimeout = NO_TIMER
    /\ preloadedAssets = <<>>
    /\ now = Epoch
    /\ timers = {}
    /\ optionsType = ""
    /\ galleryShown = FALSE
    /\ galleryGrid = {}
    /\ inFlight = [face |-> 0, hand |-> 0]
    /\ lastOp = Op("load")
    /\ swipeLog = <<>>
    /\ track = [base |-> NULL_X, tracked |-> FALSE]
    /\ seen = NoFrame
    /\ trail = NoTrail
    /\ run = NoRun

(***************************************************************************)
(* The clock and the camera loop                                           *)
(***************************************************************************)
\* Time passes: d milliseconds, up to the horizon.
Tick(d, horizon) ==
    /\ now + d <= Epoch + horizon
    /\ now' = now + d
    /\ lastOp' = Op("tick")
    /\ UNCHANGED <<codeVars, timers, optionsType, galleryShown, galleryGrid,
                   inFlight, swipeLog, track, seen, trail, run>>

\* Mutant: a frame is sent whatever the busy flag says.
CanSend_Always(busy) == TRUE

\* if (!isProcessingFace) / if (!isProcessingHand)
CanSend(busy) == ~busy

\* The camera delivers a frame: onFrame runs up to its first await.  With
\* the face flag clear it sends the frame to faceMesh and suspends; with the
\* face flag set it skips to its second statement, which sends the frame to
\* hands unless the hand flag is set; with both set the frame is dropped.
OnFrame ==
    /\ IF CanSend(isProcessingFace)
       THEN /\ isProcessingFace' = TRUE
            /\ inFlight' = [inFlight EXCEPT !.face = @ + 1]
            /\ UNCHANGED isProcessingHand
       ELSE IF CanSend(isProcessingHand)
       THEN /\ isProcessingHand' = TRUE
            /\ inFlight' = [inFlight EXCEPT !.hand = @ + 1]
            /\ UNCHANGED isProcessingFace
       ELSE UNCHANGED <<isProcessingFace, isProcessingHand, inFlight>>
    /\ lastOp' = [Op("onFrame") EXCEPT
                    !.sent = IF CanSend(isProcessingFace) THEN "face"
                             ELSE IF CanSend(isProcessingHand) THEN "hand"
                             ELSE "none"]
    /\ UNCHANGED <<earringImg, necklaceImg, currentType, lastGestureTime,
                   previousHandX, autoTryRunning, autoSnapshots, autoTryIndex,
                   autoTryTimeout, preloadedAssets, pageVars,
                   swipeLog, track, seen, trail, run>>

\* faceMesh.onResults, then the onFrame invocation that sent the frame
\* resumes after "await faceMesh.send" and runs its second statement.  The
\* drawing itself is not state any handler reads.
FaceResults ==
    /\ inFlight.face > 0
    /\ isProcessingFace' = FALSE
    /\ IF CanSend(isProcessingHand)
       THEN /\ isProcessingHand' = TRUE
            /\ inFlight' = [face |-> inFlight.face - 1,
                            hand |-> inFlight.hand + 1]
       ELSE /\ inFlight' = [inFlight EXCEPT !.face = @ - 1]
            /\ UNCHANGED isProcessingHand
    /\ lastOp' = Op("faceMesh.onResults")
    /\ UNCHANGED <<earringImg, necklaceImg, currentType, lastGestureTime,
                   previousHandX, autoTryRunning, autoSnapshots, autoTryIndex,
                   autoTryTimeout, preloadedAssets, pageVars,
                   swipeLog, track, seen, trail, run>>

(***************************************************************************)
(* Navigation and selection                                                *)
(***************************************************************************)
\* Mutant: the list length is not added before the remainder is taken.
NextIndex_NoWrap(idx, dir, len) == JsMod(idx + dir, len)

\* (idx + dir + list.length) % list.length
NextIndex(idx, dir, len) == JsMod(idx + dir + len, len)

\* Mutant: with no category selected the call falls back to the first
\* category of IMAGE_COUNTS instead of returning.
NavigateJewelry_FirstCategory(dir) ==
    LET type == IF currentType = "" THEN "gold_earrings" ELSE currentType
        list == IF type \in DOMAIN preloadedAssets
                THEN preloadedAssets[type] ELSE Catalog(type)
        currentImg == IF IsEarrings(type) THEN earringImg ELSE necklaceImg
        nextIdx == NextIndex(IndexOf(list, currentImg), dir, Len(list))
    IN  IF IsEarrings(type)
        THEN [e |-> At(list, nextIdx), n |-> necklaceImg]
        ELSE [e |-> earringImg, n |-> At(list, nextIdx)]

\* navigateJewelry(dir): the two slots after the call.
NavigateJewelry(dir) ==
    IF currentType = "" \/ currentType \notin DOMAIN preloadedAssets
    THEN [e |-> earringImg, n |-> necklaceImg]
    ELSE LET list == preloadedAssets[currentType]
             currentImg == IF IsEarrings(currentType)
                           THEN earringImg ELSE necklaceImg
             idx == IndexOf(list, currentImg)
             nextIdx == NextIndex(idx, dir, Len(list))
             nextItem == At(list, nextIdx)
         IN  IF IsEarrings(currentType)
             THEN [e |-> nextItem, n |-> necklaceImg]
             ELSE [e |-> earringImg, n |-> nextItem]

\* preloadCategory(type): populate the cache once.
PreloadCategory(assets, type) ==
    IF type \in DOMAIN assets
    THEN assets
    ELSE [t \in DOMAIN assets \cup {type} |->
              IF t = type THEN Catalog(type) ELSE assets[t]]

\* Mutant: selecting a category empties the slot that category writes.
SelectSlots_Reset(type) ==
    [e |-> IF IsEarrings(type) THEN NULL ELSE earringImg,
     n |-> IF IsEarrings(type) THEN necklaceImg ELSE NULL]

\* The slots after selectJewelryType(type): the function assigns neither.
SelectSlots(type) == [e |-> earringImg, n |-> necklaceImg]

\* selectJewelryType(type)
SelectJewelryType(type) ==
    /\ currentType' = type
    /\ preloadedAssets' = PreloadCategory(preloadedAssets, type)
    /\ optionsType' = type
    /\ earringImg' = SelectSlots(type).e
    /\ necklaceImg' = SelectSlots(type).n
    /\ lastOp' = Op("selectJewelryType")
    /\ trail' = NoTrail
    /\ run' = IF autoTryRunning THEN [run EXCEPT !.disturbed = TRUE] ELSE run
    /\ UNCHANGED <<cameraVars, gestureVars, sequencerVars, galleryVars, now,
                   inFlight, swipeLog, track, seen>>

\* The thumbnail buttons in the jewelry-options container (loop variable i).
Buttons == IF optionsType = "" THEN {} ELSE 1..IMAGE_COUNTS[optionsType]

\* Click on the i-th thumbnail button (1-based, as the loop variable) built
\* by the last selectJewelryType; the closure keeps that call's type.
ThumbClick(i) ==
    /\ i \in Buttons
    /\ LET fullImg == At(preloadedAssets[optionsType], i - 1)
       IN  IF IsEarrings(optionsType)
           THEN earringImg' = fullImg /\ UNCHANGED necklaceImg
           ELSE necklaceImg' = fullImg /\ UNCHANGED earringImg
    /\ lastOp' = Op("thumb.onclick")
    /\ trail' = NoTrail
    /\ run' = IF autoTryRunning THEN [run EXCEPT !.disturbed = TRUE] ELSE run
    /\ UNCHANGED <<currentType, preloadedAssets, optionsType, cameraVars,
                   gestureVars, sequencerVars, galleryVars, now,
                   inFlight, swipeLog, track, seen>>

(***************************************************************************)
(* Gesture recognizer                                                      *)
(***************************************************************************)
\* Mutant: losing the hand does not clear the reference position.
UpdateHandIndicator_KeepsRef(detected, prevX) == prevX

\* updateHandIndicator(detected): the reference position afterwards.
UpdateHandIndicator(detected, prevX) == IF detected THEN prevX ELSE NULL_X

\* Mutant: the recognizer forgets to look at autoTryRunning.
GestureEnabled_IgnoresRun(hasHand, running) == hasHand

\* if (!hasHand || autoTryRunning) return;
GestureEnabled(hasHand, running) == hasHand /\ ~running

\* Mutant: the cooldown test uses the 100 ms history guard.
InCooldown_WrongInterval(t, last) == t - last < HISTORY_GUARD

\* if (now - lastGestureTime < GESTURE_COOLDOWN) return;
InCooldown(t, last) == t - last < GESTURE_COOLDOWN

\* Mutant: the threshold comparisons are not strict.
SwipeDirection_NotStrict(diff) ==
    IF diff <= -SWIPE_THRESHOLD THEN 1
    ELSE IF diff >= SWIPE_THRESHOLD THEN -1
    ELSE 0

\* The direction handed to navigateJewelry for a change diff, 0 for none.
SwipeDirection(diff) ==
    IF diff < -SWIPE_THRESHOLD THEN 1
    ELSE IF diff > SWIPE_THRESHOLD THEN -1
    ELSE 0

\* if (now - lastGestureTime > 100) previousHandX = currentX;
KeepsHistory(t, last) == t - last > HISTORY_GUARD

\* hands.onResults with a frame that holds a hand at x (hasHand) or no
\* hand; onFrame then returns from "await hands.send".
HandResults(hasHand, x) ==
    /\ inFlight.hand > 0
    /\ isProcessingHand' = FALSE
    /\ inFlight' = [inFlight EXCEPT !.hand = @ - 1]
    /\ LET prev0 == UpdateHandIndicator(hasHand, previousHandX)
           live == /\ GestureEnabled(hasHand, autoTryRunning)
                   /\ ~InCooldown(now, lastGestureTime)
           dir == IF live /\ prev0 # NULL_X
                  THEN SwipeDirection(x - prev0) ELSE 0
           last1 == IF dir # 0 THEN now ELSE lastGestureTime
           prev1 == IF dir # 0 THEN NULL_X ELSE prev0
           stored == live /\ KeepsHistory(now, last1)
           prev2 == IF stored THEN x ELSE prev1
           slots == IF dir # 0 THEN NavigateJewelry(dir)
                    ELSE [e |-> earringImg, n |-> necklaceImg]
           idx0 == CurrentIndex
           moved == dir # 0 /\ CurrentLength > 0
           same == trail.n > 0 /\ trail.dir = dir
       IN  /\ previousHandX' = prev2
           /\ lastGestureTime' = last1
           /\ earringImg' = slots.e
           /\ necklaceImg' = slots.n
           /\ lastOp' = [Op("hands.onResults") EXCEPT
                           !.fired = dir,
                           !.x = IF hasHand THEN x ELSE NULL_X,
                           !.first = (seen.x = NULL_X \/ seen.fired # 0)]
           /\ swipeLog' = IF dir = 0 THEN swipeLog
                          ELSE IF Len(swipeLog) = 2
                               THEN <<swipeLog[2], now>>
                               ELSE Append(swipeLog, now)
           /\ track' = IF ~hasHand \/ dir # 0
                         THEN [base |-> NULL_X, tracked |-> FALSE]
                       ELSE IF stored
                         THEN [base |-> x, tracked |-> TRUE]
                       ELSE track
           /\ seen' = [x |-> IF hasHand THEN x ELSE NULL_X, fired |-> dir]
           /\ trail' = IF ~moved THEN trail
                       ELSE [n |-> IF same THEN trail.n + 1 ELSE 1,
                             dir |-> dir,
                             start |-> IF same THEN trail.start ELSE idx0,
                             prevDir |-> trail.dir,
                             prevFrom |-> trail.from,
                             from |-> idx0]
    /\ UNCHANGED <<currentType, isProcessingFace, autoTryRunning,
                   autoSnapshots, autoTryIndex, autoTryTimeout,
                   preloadedAssets, pageVars, run>>

(***************************************************************************)
(* Auto-capture sequencer and gallery                                      *)
(***************************************************************************)
\* canvasElement.toDataURL(): the frame composited from the selection.
Frame == <<earringImg, necklaceImg>>

\* captureToGallery(): autoSnapshots.push(dataUrl)
CaptureToGallery(snaps, frame) == Append(snaps, frame)

\* showGallery(): one thumbnail per snapshot, each storing its index.
GridOf(snaps) == {i \in 0..(Len(snaps) - 1) : TRUE}

\* Mutant: the pending timeout is not cancelled.
ClearTimeout_Forgotten(tm, handle) == tm

\* clearTimeout(handle) guarded by "if (autoTryTimeout)".
ClearTimeout(tm, handle) ==
    IF handle # NO_TIMER THEN {t \in tm : t.id # handle} ELSE tm

\* setTimeout: a handle that is not in use.
FreeHandles(tm, handle) ==
    {id \in 1..MaxTimers : id # handle /\ \A t \in tm : t.id # id}

NewHandle(tm, handle) ==
    CHOOSE id \in FreeHandles(tm, handle) :
        \A other \in FreeHandles(tm, handle) : id <= other

\* Mutant: startAutoTry keeps the previous run's snapshots.
StartSnapshots_Kept(snaps) == snaps

\* autoSnapshots as startAutoTry leaves it.
StartSnapshots(snaps) == <<>>

\* Mutant: stopAutoTry leaves autoTryRunning set.
StopAutoTry_StaysRunning(snaps, tm, handle) ==
    [running |-> TRUE, timers |-> ClearTimeout(tm, handle),
     handle |-> handle, e |-> earringImg, n |-> necklaceImg,
     show |-> Len(snaps) > 0]

\* stopAutoTry(): the sequencer state afterwards; show: showGallery ran.
StopAutoTry(snaps, tm, handle) ==
    [running |-> FALSE, timers |-> ClearTimeout(tm, handle),
     handle |-> handle, e |-> earringImg, n |-> necklaceImg,
     show |-> Len(snaps) > 0]

\* Mutant: the end-of-catalog test is off by one (> instead of >=).
RunAutoStep_OffByOne(running, idx, snaps, tm, handle) ==
    IF ~running
    THEN [running |-> running, timers |-> tm, handle |-> handle,
          e |-> earringImg, n |-> necklaceImg, show |-> FALSE]
    ELSE IF \/ currentType \notin DOMAIN preloadedAssets
            \/ idx > Len(preloadedAssets[currentType])
    THEN StopAutoTry(snaps, tm, handle)
    ELSE LET targetImg == At(preloadedAssets[currentType], idx)
             id == NewHandle(tm, handle)
         IN  [running |-> TRUE,
              timers |-> tm \cup {[id |-> id, due |-> now + SETTLE_DELAY]},
              handle |-> id,
              e |-> IF IsEarrings(currentType) THEN targetImg ELSE earringImg,
              n |-> IF IsEarrings(currentType) THEN necklaceImg ELSE targetImg,
              show |-> FALSE]

\* runAutoStep() entered with the given sequencer state.
RunAutoStep(running, idx, snaps, tm, handle) ==
    IF ~running
    THEN [running |-> running, timers |-> tm, handle |-> handle,
          e |-> earringImg, n |-> necklaceImg, show |-> FALSE]
    ELSE IF \/ currentType \notin DOMAIN preloadedAssets
            \/ idx >= Len(preloadedAssets[currentType])
    THEN StopAutoTry(snaps, tm, handle)
    ELSE LET targetImg == At(preloadedAssets[currentType], idx)
             id == NewHandle(tm, handle)
         IN  [running |-> TRUE,
              timers |-> tm \cup {[id |-> id, due |-> now + SETTLE_DELAY]},
              handle |-> id,
              e |-> IF IsEarrings(currentType) THEN targetImg ELSE earringImg,
              n |-> IF IsEarrings(currentType) THEN necklaceImg ELSE targetImg,
              show |-> FALSE]

\* The common tail of the handlers that end in stopAutoTry / runAutoStep.
Apply(r, snaps) ==
    /\ autoTryRunning' = r.running
    /\ timers' = r.timers
    /\ autoTryTimeout' = r.handle
    /\ earringImg' = r.e
    /\ necklaceImg' = r.n
    /\ autoSnapshots' = snaps
    /\ galleryShown' = (galleryShown \/ r.show)
    /\ galleryGrid' = IF r.show THEN GridOf(snaps) ELSE galleryGrid

\* Mutant: the toggle does not test for a selected category.
NoCategory_Never(type) == FALSE

\* if (!currentType): no category has been selected.
NoCategory(type) == type = ""

\* toggleTryAll()
ToggleTryAll ==
    IF NoCategory(currentType)
    THEN /\ lastOp' = [Op("toggleTryAll") EXCEPT !.alert = TRUE]
         /\ UNCHANGED <<codeVars, pageVars, inFlight, swipeLog, track, seen,
                        trail, run>>
    ELSE IF autoTryRunning
    THEN LET r == StopAutoTry(autoSnapshots, timers, autoTryTimeout)
         IN  /\ Apply(r, autoSnapshots)
             /\ lastOp' = [Op("toggleTryAll") EXCEPT !.shown = r.show]
             /\ UNCHANGED <<currentType, cameraVars, gestureVars,
                            autoTryIndex, preloadedAssets, now, optionsType,
                            inFlight, swipeLog, track, seen, trail, run>>
    ELSE LET snaps == StartSnapshots(autoSnapshots)
             r == RunAutoStep(TRUE, 0, snaps, timers, autoTryTimeout)
         IN  /\ FreeHandles(timers, autoTryTimeout) # {}
             /\ Apply(r, snaps)
             /\ autoTryIndex' = 0
             /\ lastOp' = [Op("toggleTryAll") EXCEPT !.shown = r.show]
             /\ trail' = NoTrail
             /\ run' = [any |-> TRUE, steps |-> 0, manual |-> 0,
                        disturbed |-> FALSE]
             /\ UNCHANGED <<currentType, cameraVars, gestureVars,
                            preloadedAssets, now, optionsType,
                            inFlight, swipeLog, track, seen>>

\* The settle timeout set by runAutoStep comes due and its callback runs:
\* captureToGallery(); autoTryIndex++; runAutoStep();
AutoStepTimer(t) ==
    /\ t \in timers
    /\ now >= t.due
    /\ LET tm == timers \ {t}
           snaps == CaptureToGallery(autoSnapshots, Frame)
           idx == autoTryIndex + 1
           r == RunAutoStep(autoTryRunning, idx, snaps, tm, autoTryTimeout)
       IN  /\ r.running => FreeHandles(tm, autoTryTimeout) # {}
           /\ Apply(r, snaps)
           /\ autoTryIndex' = idx
           /\ lastOp' = [Op("autoStep") EXCEPT !.shown = r.show]
    /\ trail' = NoTrail
    /\ run' = [run EXCEPT !.steps = @ + 1]
    /\ UNCHANGED <<currentType, cameraVars, gestureVars, preloadedAssets,
                   now, optionsType, inFlight, swipeLog, track, seen>>

\* takeSnapshot(): captureToGallery(); showGallery();
TakeSnapshot ==
    /\ run.manual < MaxManual
    /\ LET snaps == CaptureToGallery(autoSnapshots, Frame)
       IN  /\ autoSnapshots' = snaps
           /\ galleryShown' = TRUE
           /\ galleryGrid' = GridOf(snaps)
    /\ lastOp' = [Op("takeSnapshot") EXCEPT !.shown = TRUE]
    /\ run' = [run EXCEPT !.manual = @ + 1,
                          !.disturbed = (@ \/ autoTryRunning)]
    /\ UNCHANGED <<earringImg, necklaceImg, currentType, cameraVars,
                   gestureVars, autoTryRunning, autoTryIndex, autoTryTimeout,
                   preloadedAssets, now, timers, optionsType,
                   inFlight, swipeLog, track, seen, trail>>

\* closeGallery()
CloseGallery ==
    /\ galleryShown
    /\ galleryShown' = FALSE
    /\ lastOp' = Op("closeGallery")
    /\ UNCHANGED <<codeVars, now, timers, optionsType, galleryGrid,
                   inFlight, swipeLog, track, seen, trail, run>>

(***************************************************************************)
(* Specifications                                                          *)
(***************************************************************************)
\* Horizontal positions offered to the recognizer (hundredths).
HandXs == {46, 50, 60}

\* The recognizer: frames, time in steps just below and exactly at the
\* cooldown (700 ms and 800 ms), one category, and capture runs started
\* and cancelled around the frames.
NextGesture ==
    \/ \E d \in {700, GESTURE_COOLDOWN} : Tick(d, MaxElapsedGesture)
    \/ OnFrame
    \/ FaceResults
    \/ \E x \in HandXs : HandResults(TRUE, x)
    \/ HandResults(FALSE, NULL_X)
    \/ SelectJewelryType("gold_earrings")
    \/ ToggleTryAll
    \/ \E t \in timers : AutoStepTimer(t)

SpecGesture == Init /\ [][NextGesture]_vars

\* The navigator: category selections, thumbnail picks and swipes, one
\* cooldown (800 ms) of time per step, positions far enough apart that
\* every second frame is a swipe.
NavTypes == {"gold_necklaces", "diamond_necklaces"}

NextNav ==
    \/ Tick(GESTURE_COOLDOWN, MaxElapsedNav)
    \/ OnFrame
    \/ FaceResults
    \/ \E x \in {40, 60} : HandResults(TRUE, x)
    \/ \E type \in NavTypes : SelectJewelryType(type)
    \/ \E i \in Buttons : ThumbClick(i)

SpecNav == Init /\ [][NextNav]_vars

\* The sequencer: the capture toggle, the settle timer, the manual
\* snapshot and the gallery, with category selections around and inside a
\* run; time advances one settle delay (1500 ms) per step.
RunTypes == {"gold_necklaces", "diamond_necklaces"}

NextRun ==
    \/ Tick(SETTLE_DELAY, MaxElapsedRun)
    \/ \E type \in RunTypes : SelectJewelryType(type)
    \/ ToggleTryAll
    \/ \E t \in timers : AutoStepTimer(t)
    \/ TakeSnapshot
    \/ CloseGallery

SpecRun == Init /\ [][NextRun]_vars

\* Termination of a run: the sequencer with camera frames (a hand at one
\* position, or none), category selections and picks of the sixth
\* thumbnail around and inside a run.  The camera delivers a frame when
\* the previous one has been analysed.  Time passes only while a settle
\* timeout is pending, and then up to the moment it is due; the timeout
\* that is due eventually runs its callback.
LiveTypes == {"gold_necklaces", "diamond_necklaces"}

TimerComesDue ==
    \E t \in timers : now < t.due /\ Tick(t.due - now, MaxElapsedLive)

NextLive ==
    \/ TimerComesDue
    \/ \E t \in timers : AutoStepTimer(t)
    \/ (autoTryRunning \/ now <= Epoch + MaxStartLive) /\ ToggleTryAll
    \/ \E type \in LiveTypes : SelectJewelryType(type)
    \/ \E i \in {6} : ThumbClick(i)
    \/ (~isProcessingFace /\ ~isProcessingHand) /\ OnFrame
    \/ FaceResults
    \/ \E x \in {50} : HandResults(TRUE, x)
    \/ HandResults(FALSE, NULL_X)

SpecLive ==
    /\ Init /\ [][NextLive]_vars
    /\ WF_vars(TimerComesDue)
    /\ WF_vars(\E t \in timers : AutoStepTimer(t))

\* Both slots: an earrings and a necklaces category, with every handler
\* that writes a slot: swipes, picks of the first thumbnail and the
\* sequencer's step.  The camera delivers a frame when the previous one
\* has been analysed; time advances one settle delay (1500 ms, longer
\* than the cooldown) per step.
SlotTypes == {"gold_earrings", "diamond_necklaces"}

NextSlots ==
    \/ Tick(SETTLE_DELAY, MaxElapsedSlots)
    \/ (~isProcessingFace /\ ~isProcessingHand) /\ OnFrame
    \/ FaceResults
    \/ \E x \in {40, 60} : HandResults(TRUE, x)
    \/ \E type \in SlotTypes : SelectJewelryType(type)
    \/ \E i \in {1} : ThumbClick(i)
    \/ ToggleTryAll
    \/ \E t \in timers : AutoStepTimer(t)

SpecSlots == Init /\ [][NextSlots]_vars

\* The whole program: every handler with every input above.  The
\* specifications above are the slices of it that are model-checked.
Next == NextGesture \/ NextNav \/ NextRun \/ NextLive \/ NextSlots

Spec == Init /\ [][Next]_vars

(***************************************************************************)
(* Claims                                                                  *)
(***************************************************************************)
IsHandFrame(op) == op.name = "hands.onResults"

\* The time of the last swipe event, and whether the cooldown since it has
\* elapsed at time t (no event yet: nothing to wait for).
CooldownElapsed(t) ==
    \/ swipeLog = <<>>
    \/ t - swipeLog[Len(swipeLog)] >= GESTURE_COOLDOWN

\* The three conditions of the swipe rule for a hand frame at x, read in
\* the state the frame arrives in: the change from the tracked baseline
\* exceeds the threshold, the cooldown has elapsed, and the hand has been
\* tracked without loss since the baseline was accepted.
SwipeDue(x) ==
    /\ track.tracked
    /\ Abs(x - track.base) > SWIPE_THRESHOLD
    /\ CooldownElapsed(now)

\* C1: any two consecutive swipe events (calls of navigateJewelry by the
\* recognizer) are at least the 800 ms cooldown apart.
C1_SwipesRespectCooldown ==
    Len(swipeLog) = 2 => swipeLog[2] - swipeLog[1] >= GESTURE_COOLDOWN

\* C1 witness: two swipes have fired, the second exactly 800 ms after the
\* first.
C1_Witness ==
    /\ Len(swipeLog) = 2
    /\ swipeLog[2] - swipeLog[1] = GESTURE_COOLDOWN
    /\ IsHandFrame(lastOp) /\ lastOp.fired # 0

C6_RecognizerOffDuringRun ==
    [][(autoTryRunning /\ IsHandFrame(lastOp'))
          => /\ lastOp'.fired = 0
             /\ UNCHANGED <<lastGestureTime, swipeLog, earringImg,
                            necklaceImg, currentType>>]_vars

\* C6 witness: during a run, with a baseline tracked and the cooldown over,
\* a hand frame arrived whose change exceeds the threshold.
C6_Witness ==
    /\ autoTryRunning
    /\ IsHandFrame(lastOp) /\ lastOp.x # NULL_X
    /\ SwipeDue(lastOp.x)

\* The item a snapshot shows in the slot of the current category.
SnapItem(snap) == IF IsEarrings(currentType) THEN snap[1] ELSE snap[2]

\* C3: a run that no user control touches captures, step by step, the items
\* of the selected category in catalog order: after each step the
\* collection holds one snapshot per completed step, the i-th showing item
\* i; the run is still active exactly while fewer than N steps are done, so
\* it ends Idle with exactly N snapshots.
C3_UninterruptedRun ==
    (lastOp.name = "autoStep" /\ ~run.disturbed)
        => /\ Len(autoSnapshots) = run.steps
           /\ \A i \in 1..Len(autoSnapshots) :
                  SnapItem(autoSnapshots[i]) = <<currentType, i>>
           /\ run.steps <= IMAGE_COUNTS[currentType]
           /\ autoTryRunning <=> (run.steps < IMAGE_COUNTS[currentType])

\* C3 witness: diamond_necklaces has run to completion untouched: 6
\* snapshots, sequencer Idle.
C3_Witness ==
    /\ lastOp.name = "autoStep" /\ ~run.disturbed
    /\ currentType = "diamond_necklaces"
    /\ ~autoTryRunning
    /\ Len(autoSnapshots) = 6

\* A step of toggleTryAll that cancels a run after fewer than N steps.
CancelStep ==
    /\ autoTryRunning
    /\ lastOp'.name = "toggleTryAll"
    /\ run.steps < CurrentLength

\* C4 as stated: the cancel leaves exactly k snapshots, nothing of the run
\* stays pending, and the gallery is presented if and only if k > 0.
C4_Original ==
    [][CancelStep
          => /\ ~autoTryRunning'
             /\ Len(autoSnapshots') = run.steps
             /\ timers' = {}
             /\ lastOp'.shown <=> (run.steps > 0)]_vars

\* C4 amended: with m manual takeSnapshot captures made during the run, the
\* cancel leaves exactly k + m snapshots, nothing of the run stays pending,
\* and the gallery is presented if and only if k + m > 0.
C4_CancelKeepsCaptures ==
    [][CancelStep
          => /\ ~autoTryRunning'
             /\ Len(autoSnapshots') = run.steps + run.manual
             /\ timers' = {}
             /\ lastOp'.shown <=> (run.steps + run.manual > 0)]_vars

\* C4 witness: a run was cancelled after 2 completed steps and a manual
\* capture, and the gallery was presented.
C4_Witness ==
    /\ lastOp.name = "toggleTryAll" /\ ~lastOp.alert /\ ~autoTryRunning
    /\ run.steps = 2 /\ run.manual = 1
    /\ Len(autoSnapshots) = 3
    /\ lastOp.shown

\* C5 as stated: while a run is active the category and the items change
\* only through the sequencer's own step.
C5_Original ==
    [][(autoTryRunning /\ <<currentType, earringImg, necklaceImg>>'
                            # <<currentType, earringImg, necklaceImg>>)
          => lastOp'.name = "autoStep"]_vars

\* A step of toggleTryAll that starts a run.
StartStep ==
    /\ ~autoTryRunning
    /\ lastOp'.name = "toggleTryAll" /\ ~lastOp'.alert

AppendsOne == \E f \in {Frame} : autoSnapshots' = Append(autoSnapshots, f)

\* C7 as stated: cleared at the start of a run, only appended to during a
\* run, and unchanged in Idle after a run until the next run starts.
C7_Original ==
    [][/\ StartStep => autoSnapshots' = <<>>
       /\ (autoTryRunning /\ autoSnapshots' # autoSnapshots) => AppendsOne
       /\ (~autoTryRunning /\ run.any /\ autoSnapshots' # autoSnapshots)
             => StartStep]_vars

\* C7 amended: cleared at the start of a run; every other change appends
\* exactly one snapshot, made either by the sequencer's step during a run
\* or by the manual takeSnapshot control, during a run or in Idle.
C7_ClearedThenAppendOnly ==
    [][/\ StartStep => autoSnapshots' = <<>>
       /\ (~StartStep /\ autoSnapshots' # autoSnapshots)
             => /\ AppendsOne
                /\ \/ lastOp'.name = "takeSnapshot"
                   \/ lastOp'.name = "autoStep" /\ autoTryRunning]_vars

\* C7 witness: in Idle after a run that completed steps, the manual control
\* has appended a snapshot to the collection the run left.
C7_Witness ==
    /\ lastOp.name = "takeSnapshot" /\ ~autoTryRunning
    /\ run.any /\ run.steps > 0
    /\ Len(autoSnapshots) = run.steps + 1

\* C8 as stated: right after a category is selected, the current item of
\* that category's slot is "none".
C8_Original ==
    lastOp.name = "selectJewelryType" => CurrentItem = NULL

\* C8 amended: selecting a category sets the category and leaves both
\* slots as they were, so the current item is "none" only if the slot was
\* empty before.
C8_SelectKeepsSlots ==
    [][lastOp'.name = "selectJewelryType"
          => /\ currentType' \in Types
             /\ currentType' \in DOMAIN preloadedAssets'
             /\ earringImg' = earringImg
             /\ necklaceImg' = necklaceImg]_vars

\* C8 witness: a category was selected while its slot held an item of the
\* other category of the same slot.
C8_Witness ==
    /\ lastOp.name = "selectJewelryType"
    /\ CurrentItem # NULL
    /\ CurrentItem[1] # currentType

\* C9: after navigateJewelry(+1) then navigateJewelry(-1) from an index i
\* of the catalog, the current item is at index i again.
C9_ForwardThenBack ==
    (trail.prevDir = 1 /\ trail.dir = -1
       /\ trail.prevFrom \in 0..(CurrentLength - 1))
        => CurrentIndex = trail.prevFrom

\* C9 witness: +1 then -1 from the last index, the one that wraps.
C9_Witness ==
    /\ trail.prevDir = 1 /\ trail.dir = -1
    /\ CurrentLength > 0
    /\ trail.prevFrom = CurrentLength - 1
    /\ lastOp.fired = -1

\* C10: after N calls of navigateJewelry in one direction from an index of
\* a catalog of length N, the current item is at the start index again.
C10_FullCircle ==
    (trail.n = CurrentLength /\ trail.n > 0
       /\ trail.start \in 0..(CurrentLength - 1))
        => CurrentIndex = trail.start

\* C10 witness: six calls with direction -1 in diamond_necklaces, started
\* from index 2.
C10_Witness ==
    /\ currentType = "diamond_necklaces"
    /\ trail.n = 6 /\ trail.dir = -1 /\ trail.start = 2
    /\ lastOp.fired = -1

\* C11: the index of the current item in the current category's catalog,
\* if the item is in it, is within the catalog's bounds; and right after a
\* navigateJewelry(+1 or -1) with a populated catalog, or a thumbnail pick,
\* the current item is an element of the catalog, from whatever item (an
\* index, "none" or an item of another category) the call started.
C11_IndexInBounds ==
    /\ CurrentIndex \in -1..(CurrentLength - 1)
    /\ (\/ IsHandFrame(lastOp) /\ lastOp.fired # 0 /\ CurrentLength > 0
        \/ lastOp.name = "thumb.onclick")
          => /\ CurrentIndex \in 0..(CurrentLength - 1)
             /\ CurrentItem # NULL
             /\ CurrentItem[1] = currentType

\* C11 witness: navigateJewelry(-1) was called while the slot held "none"
\* or an item of another category (indexOf gave -1) and landed on the
\* last-but-one item of the catalog.
C11_Witness ==
    /\ IsHandFrame(lastOp) /\ lastOp.fired = -1
    /\ trail.from = -1
    /\ CurrentLength > 0
    /\ CurrentIndex = CurrentLength - 2

\* C12: toggleTryAll with no category selected starts no run and changes
\* no state of the program or the page: the sequencer stays Idle, the
\* snapshot collection, the step index, the pending timers and the
\* selection are unchanged, and only the alert is raised.
C12_ToggleWithoutCategory ==
    [][(lastOp'.name = "toggleTryAll" /\ currentType = "")
          => /\ lastOp'.alert
             /\ ~autoTryRunning /\ ~autoTryRunning'
             /\ UNCHANGED <<codeVars, pageVars>>]_vars

\* C12 witness: the toggle was invoked with no category selected while the
\* collection held a manual snapshot; the alert was raised and the
\* snapshot is still there.
C12_Witness ==
    /\ lastOp.name = "toggleTryAll" /\ lastOp.alert
    /\ currentType = ""
    /\ Len(autoSnapshots) = 1
    /\ ~autoTryRunning /\ timers = {}

\* C13: toggleTryAll while a run is active acts as stop: the sequencer
\* becomes Idle, the pending step is cancelled, the snapshot collection and
\* the step index are left as they are; and the sequencer leaves Idle only
\* through toggleTryAll, which then starts a fresh run at step 0.
C13_ToggleWhileRunningStops ==
    [][/\ (autoTryRunning /\ lastOp'.name = "toggleTryAll")
             => /\ ~autoTryRunning'
                /\ timers' = {}
                /\ autoSnapshots' = autoSnapshots
                /\ autoTryIndex' = autoTryIndex
       /\ (~autoTryRunning /\ autoTryRunning')
             => /\ lastOp'.name = "toggleTryAll"
                /\ autoTryIndex' = 0
                /\ Cardinality(timers') = 1]_vars

\* C13 witness: the toggle stopped a run that had completed one step; the
\* snapshot and the step index 1 are kept and no timer is pending.
C13_Witness ==
    /\ lastOp.name = "toggleTryAll" /\ ~lastOp.alert
    /\ ~autoTryRunning
    /\ run.steps = 1 /\ run.manual = 0
    /\ autoTryIndex = 1 /\ Len(autoSnapshots) = 1
    /\ timers = {}

\* C14: every frame without a hand and every frame that fires a swipe
\* leaves previousHandX cleared; so the first hand frame handled after a
\* frame without a hand (or after page load), and the first one handled
\* after a frame that fired, fires nothing: one motion, one event at most.
C14_ClearedOnLossAndFire ==
    [][IsHandFrame(lastOp')
          => /\ (lastOp'.x = NULL_X \/ lastOp'.fired # 0)
                   => previousHandX' = NULL_X
             /\ (seen.x = NULL_X \/ seen.fired # 0)
                   => (previousHandX = NULL_X /\ lastOp'.fired = 0)]_vars

\* C14 witness: outside a run and with the cooldown of an earlier swipe
\* over, the first hand frame after a frame that cleared the reference
\* position was handled: it fired nothing and became the new reference.
C14_Witness ==
    /\ IsHandFrame(lastOp) /\ lastOp.x # NULL_X /\ lastOp.first
    /\ lastOp.fired = 0
    /\ ~autoTryRunning
    /\ swipeLog # <<>>
    /\ now - lastGestureTime >= GESTURE_COOLDOWN
    /\ previousHandX = lastOp.x

\* C15 as stated: whenever a hand frame fires a swipe, the reference
\* position it is compared with is the position of the hand frame handled
\* immediately before it, the change between the two strictly exceeds the
\* threshold (a change of exactly 0.04 fires nothing), and a decrease of x
\* calls navigateJewelry(+1), an increase navigateJewelry(-1).
C15_Original ==
    [][(IsHandFrame(lastOp') /\ lastOp'.fired # 0)
          => /\ seen.x # NULL_X
             /\ previousHandX = seen.x
             /\ Abs(lastOp'.x - seen.x) > SWIPE_THRESHOLD
             /\ lastOp'.fired = IF lastOp'.x < seen.x THEN 1 ELSE -1]_vars

\* C16: at most one face analysis and at most one hand analysis is in
\* flight, and each busy flag is set exactly while its analysis is; a
\* camera frame that arrives while a flag is set starts no analysis of that
\* kind; and a flag is cleared only by the result callback of its analysis.
C16_OneTaskInFlight ==
    [][/\ inFlight'.face = (IF isProcessingFace' THEN 1 ELSE 0)
       /\ inFlight'.hand = (IF isProcessingHand' THEN 1 ELSE 0)
       /\ (lastOp'.name = "onFrame" /\ isProcessingFace)
             => inFlight'.face = inFlight.face
       /\ (lastOp'.name = "onFrame" /\ isProcessingHand)
             => inFlight'.hand = inFlight.hand
       /\ (isProcessingFace /\ ~isProcessingFace')
             => lastOp'.name = "faceMesh.onResults"
       /\ (isProcessingHand /\ ~isProcessingHand')
             => lastOp'.name = "hands.onResults"]_vars

\* C16 witness: a camera frame arrived while both analyses were in flight
\* and was dropped; one analysis of each kind is still in flight.
C16_Witness ==
    /\ lastOp.name = "onFrame" /\ lastOp.sent = "none"
    /\ isProcessingFace /\ isProcessingHand
    /\ inFlight = [face |-> 1, hand |-> 1]

\* C17: a swipe that calls navigateJewelry while no category is selected,
\* or while the selected category has no catalog, leaves both slots, the
\* category and the catalogs unchanged; the frame changes only the gesture
\* tracker: the time of the last gesture and the cleared reference
\* position.
C17_NavigateWithoutCategory ==
    [][(/\ IsHandFrame(lastOp') /\ lastOp'.fired # 0
        /\ (currentType = "" \/ currentType \notin DOMAIN preloadedAssets))
          => /\ UNCHANGED <<earringImg, necklaceImg, currentType,
                            preloadedAssets, optionsType>>
             /\ UNCHANGED <<sequencerVars, galleryVars>>
             /\ lastGestureTime' = now
             /\ previousHandX' = NULL_X]_vars

\* C17 witness: a swipe fired with no category selected; the slots are
\* still empty and the tracker has recorded the gesture.
C17_Witness ==
    /\ IsHandFrame(lastOp) /\ lastOp.fired # 0
    /\ currentType = "" /\ preloadedAssets = <<>>
    /\ earringImg = NULL /\ necklaceImg = NULL
    /\ lastGestureTime = now /\ previousHandX = NULL_X

\* C18: provided the pending settle timeout always eventually comes due
\* and runs its callback, every run that is started eventually ends: from
\* any state with autoTryRunning set a state with it clear is reached,
\* whatever hand frames, thumbnail picks and category selections arrive
\* during the run.
C18_RunTerminates == autoTryRunning ~> ~autoTryRunning

\* C18 witness: a run started in gold_necklaces (5 items), in which the
\* category was changed and a hand frame arrived, has ended by itself in
\* the timer callback after six steps.
C18_Witness ==
    /\ lastOp.name = "autoStep" /\ ~autoTryRunning
    /\ run.disturbed
    /\ run.steps = 6 /\ autoTryIndex = 6
    /\ autoSnapshots[1][2] = <<"gold_necklaces", 1>>
    /\ seen.x # NULL_X

\* C19: at most one settle timeout is pending, it is the one whose handle
\* autoTryTimeout holds, and none is pending while the sequencer is Idle;
\* so a timer callback runs only during a run, a run starts with no
\* timeout of an earlier run pending, and only the current run's callback
\* appends a snapshot or advances the step index.
C19_OneTimerNoneWhileIdle ==
    [][/\ Cardinality(timers') <= 1
       /\ \A t \in timers' : t.id = autoTryTimeout'
       /\ ~autoTryRunning' => timers' = {}
       /\ lastOp'.name = "autoStep" => autoTryRunning
       /\ StartStep => timers = {}
       /\ (autoTryRunning /\ autoTryIndex' # autoTryIndex)
             => lastOp'.name = "autoStep"]_vars

\* C19 witness: a run was stopped and a new one started before any time
\* passed; the timeout of the first run (handle 1) is gone and the only
\* pending timeout is the second run's.
C19_Witness ==
    /\ lastOp.name = "toggleTryAll" /\ autoTryRunning
    /\ now = Epoch
    /\ autoTryTimeout = 2
    /\ timers = {[id |-> 2, due |-> Epoch + SETTLE_DELAY]}

\* C20 as stated: while a run is active the collection holds exactly
\* autoTryIndex snapshots and autoTryIndex does not exceed the length of
\* the current category's catalog.
C20_Original ==
    autoTryRunning
        => /\ Len(autoSnapshots) = autoTryIndex
           /\ autoTryIndex <= CurrentLength

\* C20 amended: while a run is active the collection holds autoTryIndex
\* snapshots plus one for every takeSnapshot invoked since the run
\* started, autoTryIndex is the number of timer callbacks of the run, and
\* it does not exceed the length of the current category's catalog.
C20_SnapshotsFollowIndex ==
    autoTryRunning
        => /\ Len(autoSnapshots) = autoTryIndex + run.manual
           /\ autoTryIndex = run.steps
           /\ autoTryIndex <= CurrentLength

\* C20 witness: a run is active at step index 5 after the category was
\* changed to gold_necklaces (5 items) and one manual snapshot was taken:
\* the collection holds 6 snapshots.
C20_Witness ==
    /\ autoTryRunning
    /\ currentType = "gold_necklaces"
    /\ autoTryIndex = 5 /\ CurrentLength = 5
    /\ run.manual = 1
    /\ Len(autoSnapshots) = 6

\* C21 as stated: while the gallery is displayed, every index stored in a
\* thumbnail of its grid (the argument its click passes to openLightbox)
\* is within the bounds of autoSnapshots.
C21_Original ==
    galleryShown
        => \A i \in galleryGrid : i >= 0 /\ i < Len(autoSnapshots)

\* The categories of each slot, and the items a slot may hold.
EarringTypes == {"gold_earrings", "diamond_earrings"}

NecklaceTypes == {"gold_necklaces", "diamond_necklaces"}

ItemsOf(types) ==
    {NULL} \cup {<<t, i>> : t \in types, i \in 1..6}

\* C22: a step taken while an earrings category is current leaves the
\* necklace item unchanged, a step taken while a necklaces category is
\* current leaves the earring item unchanged, and afterwards each slot
\* holds "none" or an item of a catalog of its own slot.
C22_SlotsIndependent ==
    [][/\ currentType \in EarringTypes => necklaceImg' = necklaceImg
       /\ currentType \in NecklaceTypes => earringImg' = earringImg
       /\ earringImg' \in ItemsOf(EarringTypes)
       /\ earringImg' # NULL => earringImg'[2] <= IMAGE_COUNTS[earringImg'[1]]
       /\ necklaceImg' \in ItemsOf(NecklaceTypes)
       /\ necklaceImg' # NULL
             => necklaceImg'[2] <= IMAGE_COUNTS[necklaceImg'[1]]]_vars

\* C22 witness: with both slots filled, a swipe in diamond_necklaces has
\* moved the necklace during a step that left the earring untouched, and
\* a run has captured a frame showing an earring with a necklace.
C22_Witness ==
    /\ IsHandFrame(lastOp) /\ lastOp.fired # 0
    /\ currentType = "diamond_necklaces"
    /\ earringImg # NULL /\ necklaceImg # NULL
    /\ \E k \in 1..Len(autoSnapshots) :
           autoSnapshots[k][1] # NULL /\ autoSnapshots[k][2] # NULL

=============================================================================
